---- MODULE Spec2Model ----
(***************************************************************************)
(* Model of the webmux request multiplexer (mux.go, path.go, the method    *)
(* set and the default error handler).                                     *)
(*                                                                         *)
(* Strings are sequences of tokens.  The tokens "/", ":" and "*" are the   *)
(* bytes the code inspects; every other token ("users", "new", "1", ...)   *)
(* stands for a run of ordinary bytes that contains none of those three.   *)
(* A tree node is identified by the sequence of child keys that leads to   *)
(* it from the root; the routing tree is the set of such keys.             *)
(***************************************************************************)
EXTENDS Integers, Sequences, FiniteSets, TLC

VARIABLES nodes, entries, pool, last

\* the backing arrays that method sets were allocated, and the method sets a
\* caller holds: MethodSet is a slice, a window onto one of those arrays
VARIABLES arrays, held

vars == <<nodes, entries, pool, last, arrays, held>>

---------------------------------------------------------------------------
(* Bounds of the model *)

MaxRoutes == 3

MaxPool == 1

\* method sets a caller makes, and tokens it passes to one call of Methods
MaxSets == 3

MaxTokens == 2

---------------------------------------------------------------------------
(* HTTP constants *)

MethodGet == "GET"

MethodHead == "HEAD"

MethodPost == "POST"

MethodOptions == "OPTIONS"

MethodPut == "PUT"

commonMethods ==
    <<MethodGet, MethodHead, MethodPost, MethodPut, "PATCH", "DELETE", "CONNECT",
      MethodOptions, "TRACE">>

StatusNoContent == 204

StatusNotFound == 404

StatusMethodNotAllowed == 405

StatusInternalServerError == 500

\* the status of a response that a registered handler wrote itself
StatusByHandler == 200

ErrMuxNotFound == "mux match not found"

ErrNone == ""

ErrHandler == "handler error"

---------------------------------------------------------------------------
(* Method sets *)

Contains(s, m) == \E i \in 1..Len(s) : s[i] = m

RECURSIVE MethodsFrom(_, _)
MethodsFrom(s, methods) ==
    IF methods = <<>> THEN s
    ELSE MethodsFrom(IF Contains(s, Head(methods)) THEN s ELSE Append(s, Head(methods)),
                     Tail(methods))

Methods(methods) == MethodsFrom(<<>>, methods)

Add(m, method) == IF ~Contains(m, method) THEN Append(m, method) ELSE m

Has(m, method) == Contains(m, method)

RECURSIVE String(_)
String(m) ==
    IF m = <<>> THEN <<>>
    ELSE IF Len(m) = 1 THEN <<m[1]>>
    ELSE <<m[1], ", ">> \o String(Tail(m))

---------------------------------------------------------------------------
(* Paths *)

\* strings.IndexByte: 0-based index of the first c in s, -1 when there is none
IndexByte(s, c) ==
    IF \E k \in 1..Len(s) : s[k] = c
    THEN (CHOOSE k \in 1..Len(s) : s[k] = c /\ \A j \in 1..(k - 1) : s[j] # c) - 1
    ELSE -1

\* the Go slice expression p[lo:hi] on a 1-based sequence
Slice(p, lo, hi) == SubSeq(p, lo + 1, hi)

shiftPath(p) ==
    LET i == IndexByte(Slice(p, 1, Len(p)), "/") + 1
    IN  IF i <= 0
        THEN [head |-> Slice(p, 1, Len(p)), tail |-> <<>>]
        ELSE [head |-> Slice(p, 1, i), tail |-> Slice(p, i, Len(p))]

cleanPath(p) ==
    IF p = <<>> THEN <<"/">>
    ELSE IF p[1] # "/" THEN <<"/">> \o p
    ELSE p

---------------------------------------------------------------------------
(* The routing tree *)

root == <<>>

WildKey == <<"*">>

hasChild(tree, n, key) == Append(n, key) \in tree

\* handleWalk that keys a placeholder by its own text
RECURSIVE handleWalk_KeepsNames(_, _, _, _)
handleWalk_KeepsNames(path, current, params, tree) ==
    IF path = <<>> THEN [current |-> current, params |-> params, tree |-> tree]
    ELSE LET s == shiftPath(path)
             placeholder == s.head # <<>> /\ (s.head[1] = ":" \/ s.head[1] = "*")
             ps == IF placeholder THEN Append(params, Tail(s.head)) ELSE params
             next == Append(current, s.head)
         IN  handleWalk_KeepsNames(s.tail, next, ps, tree \cup {next})

\* the loop of HandleMethods: walks the pattern, creating the missing nodes
RECURSIVE handleWalk(_, _, _, _)
handleWalk(path, current, params, tree) ==
    IF path = <<>> THEN [current |-> current, params |-> params, tree |-> tree]
    ELSE LET s == shiftPath(path)
             placeholder == s.head # <<>> /\ (s.head[1] = ":" \/ s.head[1] = "*")
             key == IF placeholder THEN WildKey ELSE s.head
             ps == IF placeholder THEN Append(params, Tail(s.head)) ELSE params
             next == Append(current, key)
         IN  handleWalk(s.tail, next, ps, tree \cup {next})

NoHandlers == [m \in {} |-> 0]

\* newEntry with an empty method cache
newEntry_NoOptions(pattern, params) ==
    [pattern |-> pattern, params |-> params, handlers |-> NoHandlers, methods |-> <<>>]

newEntry(pattern, params) ==
    [pattern |-> pattern, params |-> params, handlers |-> NoHandlers,
     methods |-> Methods(<<MethodOptions>>)]

\* setHandler that binds the handler of GET for HEAD as well
setHandler_BindsHead(e, method, handler) ==
    IF method \in DOMAIN e.handlers
    THEN [e |-> e, panic |-> TRUE]
    ELSE LET ms == Add(e.methods, method)
             implicit == method = MethodGet /\ ~Has(ms, MethodHead)
         IN  [e |-> [e EXCEPT !.handlers = IF implicit
                                           THEN (method :> handler) @@ (MethodHead :> handler)
                                                @@ e.handlers
                                           ELSE (method :> handler) @@ e.handlers,
                              !.methods = IF implicit THEN Add(ms, MethodHead) ELSE ms],
              panic |-> FALSE]

\* muxEntry.setHandler: e with the handler bound, or the panic
setHandler(e, method, handler) ==
    IF method \in DOMAIN e.handlers
    THEN [e |-> e, panic |-> TRUE]
    ELSE LET ms == Add(e.methods, method)
         IN  [e |-> [e EXCEPT !.handlers = (method :> handler) @@ e.handlers,
                              !.methods = IF method = MethodGet /\ ~Has(ms, MethodHead)
                                          THEN Add(ms, MethodHead) ELSE ms],
              panic |-> FALSE]

\* setHandlers that undoes what it bound when a later method panics
RECURSIVE setHandlers_AllOrNothing(_, _, _)
setHandlers_AllOrNothing(e, methods, handler) ==
    IF methods = <<>> THEN [e |-> e, panic |-> FALSE]
    ELSE LET r == setHandler(e, Head(methods), handler)
         IN  IF r.panic THEN r
             ELSE LET rest == setHandlers_AllOrNothing(r.e, Tail(methods), handler)
                  IN  IF rest.panic THEN [e |-> e, panic |-> TRUE] ELSE rest

\* the range loop over the method set; it stops at the first panic and keeps
\* what the earlier iterations bound
RECURSIVE setHandlers(_, _, _)
setHandlers(e, methods, handler) ==
    IF methods = <<>> THEN [e |-> e, panic |-> FALSE]
    ELSE LET r == setHandler(e, Head(methods), handler)
         IN  IF r.panic THEN r ELSE setHandlers(r.e, Tail(methods), handler)

---------------------------------------------------------------------------
(* Lookup *)

NilMatch == [ptr |-> FALSE, hasEntry |-> FALSE, muxEntry |-> root, values |-> <<>>]

NewMatch == [ptr |-> TRUE, hasEntry |-> FALSE, muxEntry |-> root, values |-> <<>>]

\* lookupStep with the wildcard child tried before the literal child
lookupStep_WildcardFirst(tree, current, head) ==
    IF hasChild(tree, current, WildKey)
    THEN [ok |-> TRUE, next |-> Append(current, WildKey), captured |-> TRUE]
    ELSE IF hasChild(tree, current, head)
    THEN [ok |-> TRUE, next |-> Append(current, head), captured |-> FALSE]
    ELSE [ok |-> FALSE, next |-> current, captured |-> FALSE]

\* one step of the lookup loop: the child for head, the literal child first
lookupStep(tree, current, head) ==
    IF hasChild(tree, current, head)
    THEN [ok |-> TRUE, next |-> Append(current, head), captured |-> FALSE]
    ELSE IF hasChild(tree, current, WildKey)
    THEN [ok |-> TRUE, next |-> Append(current, WildKey), captured |-> TRUE]
    ELSE [ok |-> FALSE, next |-> current, captured |-> FALSE]

\* seenEntry that keeps the first entry it met
seenEntry_KeepFirst(ents, current, entry) ==
    IF entry = <<>> /\ current \in DOMAIN ents THEN <<current>> ELSE entry

\* the entry the loop remembers after it stepped to current; entry is <<>>
\* while no entry was seen, <<n>> after the node n with an entry was passed
seenEntry(ents, current, entry) ==
    IF current \in DOMAIN ents THEN <<current>> ELSE entry

\* lookupLoop that returns the entry it has seen when it cannot step
RECURSIVE lookupLoop_KeepsSeen(_, _, _, _, _, _)
lookupLoop_KeepsSeen(tree, ents, path, current, entry, values) ==
    IF path = <<>> \/ ~lookupStep(tree, current, shiftPath(path).head).ok
    THEN IF entry = <<>> THEN NilMatch
         ELSE [ptr |-> TRUE, hasEntry |-> TRUE, muxEntry |-> entry[1], values |-> values]
    ELSE LET s == shiftPath(path)
             st == lookupStep(tree, current, s.head)
         IN  lookupLoop_KeepsSeen(tree, ents, s.tail, st.next,
                                  seenEntry(ents, st.next, entry),
                                  IF st.captured THEN Append(values, s.head) ELSE values)

\* the loop of lookup
RECURSIVE lookupLoop(_, _, _, _, _, _)
lookupLoop(tree, ents, path, current, entry, values) ==
    IF path = <<>>
    THEN IF entry = <<>> THEN NilMatch
         ELSE [ptr |-> TRUE, hasEntry |-> TRUE, muxEntry |-> entry[1], values |-> values]
    ELSE LET s == shiftPath(path)
             st == lookupStep(tree, current, s.head)
         IN  IF ~st.ok THEN NilMatch
             ELSE lookupLoop(tree, ents, s.tail, st.next,
                             seenEntry(ents, st.next, entry),
                             IF st.captured THEN Append(values, s.head) ELSE values)

lookup(tree, ents, urlPath, match) ==
    lookupLoop(tree, ents, cleanPath(urlPath), root, <<>>, match.values)

\* MuxMatch.Reset
Reset(m) == [m EXCEPT !.hasEntry = FALSE, !.muxEntry = root, !.values = <<>>]

\* MuxMatch accessors
Pattern(ents, m) == IF ~m.hasEntry THEN <<>> ELSE ents[m.muxEntry].pattern

Params(ents, m) == IF ~m.hasEntry THEN <<>> ELSE ents[m.muxEntry].params

MatchMethods(ents, m) == IF ~m.hasEntry THEN <<>> ELSE ents[m.muxEntry].methods

\* MuxMatch.Handler: 0 is the nil handler
Handler(ents, m, method) ==
    IF ~m.hasEntry THEN 0
    ELSE IF method \in DOMAIN ents[m.muxEntry].handlers
    THEN ents[m.muxEntry].handlers[method]
    ELSE 0

\* MuxMatch.Param: the value at the index of the first parameter called name;
\* indexing values past its length is a run-time panic
Param(ents, m, name) ==
    IF ~m.hasEntry THEN [panic |-> FALSE, value |-> <<>>]
    ELSE LET params == ents[m.muxEntry].params
         IN  IF \E i \in 1..Len(params) : params[i] = name
             THEN LET i == CHOOSE k \in 1..Len(params) :
                               params[k] = name /\ \A j \in 1..(k - 1) : params[j] # name
                  IN  IF i <= Len(m.values)
                      THEN [panic |-> FALSE, value |-> m.values[i]]
                      ELSE [panic |-> TRUE, value |-> <<>>]
             ELSE [panic |-> FALSE, value |-> <<>>]

---------------------------------------------------------------------------
(* The error handler *)

\* StatusErrorHandler.ErrorHTTP: the response written for err, given whether
\* the context of the request it is handed carries a MuxMatch
ErrorHTTP(ents, ctxOk, ctxMatch, err) ==
    IF err = ErrMuxNotFound
    THEN IF ~ctxOk
         THEN [status |-> StatusNotFound, allow |-> <<>>]
         ELSE [status |-> StatusMethodNotAllowed,
               allow |-> String(MatchMethods(ents, ctxMatch))]
    ELSE [status |-> StatusInternalServerError, allow |-> <<>>]

---------------------------------------------------------------------------
(* Inputs *)

P_users == <<"/", "users">>

P_users_new == <<"/", "users", "/", "new">>

P_users_id == <<"/", "users", "/", ":", "id">>

P_users_any == <<"/", "users", "/", "*", "any">>

P_star == <<"/", "*">>

P_users_slash == <<"/", "users", "/">>

P_rel_users_name == <<"users", "/", ":", "name">>

P_empty == <<>>

P_users_name == <<"/", "users", "/", ":", "name">>

P_any_id_new == <<"/", "*", "any", "/", ":", "id", "/", "new">>

\* the registrations a caller may make; a handler is named by the index of
\* its registration, 0 is the nil handler
Routes ==
    << [methods |-> <<MethodGet>>, pattern |-> P_users, handler |-> 1],
       [methods |-> <<MethodGet>>, pattern |-> P_users_new, handler |-> 2],
       [methods |-> <<MethodGet>>, pattern |-> P_users_id, handler |-> 3],
       [methods |-> <<MethodGet>>, pattern |-> P_users_any, handler |-> 4],
       [methods |-> <<MethodGet>>, pattern |-> P_star, handler |-> 5],
       [methods |-> <<MethodGet>>, pattern |-> P_users_slash, handler |-> 6],
       [methods |-> <<MethodPost>>, pattern |-> P_rel_users_name, handler |-> 7],
       [methods |-> <<MethodHead>>, pattern |-> P_users, handler |-> 8],
       [methods |-> <<MethodOptions>>, pattern |-> P_users, handler |-> 9],
       [methods |-> <<MethodPost, MethodGet>>, pattern |-> P_users, handler |-> 10],
       [methods |-> <<>>, pattern |-> P_users, handler |-> 11],
       [methods |-> <<MethodGet>>, pattern |-> P_empty, handler |-> 12],
       [methods |-> <<MethodGet>>, pattern |-> P_users, handler |-> 0],
       [methods |-> <<MethodPost>>, pattern |-> P_users_name, handler |-> 14],
       [methods |-> <<MethodGet>>, pattern |-> P_any_id_new, handler |-> 15] >>

RequestMethods == {MethodGet, MethodHead, MethodPost, MethodOptions}

Q_root == <<"/">>

Q_users == <<"/", "users">>

Q_users_slash == <<"/", "users", "/">>

Q_users_new == <<"/", "users", "/", "new">>

Q_users_1 == <<"/", "users", "/", "1">>

Q_users_1_new == <<"/", "users", "/", "1", "/", "new">>

Q_1_new == <<"/", "1", "/", "new">>

Q_star_1_new == <<"/", "*", "/", "1", "/", "new">>

RequestPaths ==
    {Q_root, Q_users, Q_users_slash, Q_users_new, Q_users_1, Q_users_1_new, Q_1_new,
     Q_star_1_new}

\* the paths of the requests that are dispatched
ServePaths == {Q_users, Q_users_1, Q_1_new}

---------------------------------------------------------------------------
(* State *)

Quiet == [op |-> "new", route |-> 0, method |-> "", path |-> <<>>, panic |-> "",
          looked |-> FALSE, match |-> NilMatch, handler |-> 0, ctxOk |-> FALSE,
          err |-> ErrNone, errHandled |-> FALSE, status |-> 0, allow |-> <<>>]

\* NewMux
Init ==
    /\ nodes = {root}
    /\ entries = [n \in {} |-> newEntry(<<>>, <<>>)]
    /\ pool = {}
    /\ last = Quiet
    /\ arrays = <<commonMethods>>
    /\ held = <<>>

NumBindings ==
    Cardinality(UNION {{<<n, m>> : m \in DOMAIN entries[n].handlers} : n \in DOMAIN entries})

\* HandlePanics that walks the pattern before it checks the arguments
HandlePanics_WalksFirst(r, msg) ==
    /\ last' = [Quiet EXCEPT !.op = "handle", !.route = r, !.panic = msg]
    /\ nodes' = handleWalk(cleanPath(Routes[r].pattern), root, <<>>, nodes).tree
    /\ UNCHANGED <<entries, pool, arrays, held>>

\* the panics of HandleMethods on its arguments, before anything else is done
HandlePanics(r, msg) ==
    /\ last' = [Quiet EXCEPT !.op = "handle", !.route = r, !.panic = msg]
    /\ UNCHANGED <<nodes, entries, pool, arrays, held>>

\* ServeMux.HandleMethods with the arguments of Routes[r]
HandleMethods(r) ==
    LET methods == Routes[r].methods
        pattern == Routes[r].pattern
        handler == Routes[r].handler
    IN  /\ NumBindings < MaxRoutes
        /\ IF Len(methods) = 0 THEN HandlePanics(r, "webmux: empty method set")
           ELSE IF pattern = <<>> THEN HandlePanics(r, "webmux: invalid pattern")
           ELSE IF handler = 0 THEN HandlePanics(r, "webmux: nil handler")
           ELSE LET w == handleWalk(cleanPath(pattern), root, <<>>, nodes)
                    entry == IF w.current \in DOMAIN entries
                             THEN entries[w.current]
                             ELSE newEntry(pattern, w.params)
                    set == setHandlers(entry, methods, handler)
                IN  /\ nodes' = w.tree
                    /\ entries' = (w.current :> set.e) @@ entries
                    /\ last' = [Quiet EXCEPT !.op = "handle", !.route = r,
                                  !.panic = IF set.panic
                                            THEN "web: multiple registrations" ELSE ""]
                    /\ UNCHANGED <<pool, arrays, held>>

\* ServeMux.Lookup: lookup into a fresh MuxMatch
Lookup(path) ==
    /\ last' = [Quiet EXCEPT !.op = "lookup", !.path = path, !.looked = TRUE,
                  !.match = lookup(nodes, entries, path, NewMatch)]
    /\ UNCHANGED <<nodes, entries, pool, arrays, held>>

\* sync.Pool.Put; a pool is free to drop what it is given
Put(p, x) == IF Cardinality(p) < MaxPool THEN p \cup {x} ELSE p

\* resolve that answers OPTIONS itself before it looks for a handler
resolve_OptionsFirst(ents, match, method, herr) ==
    IF ~match.ptr
    THEN [handler |-> 0, ctxOk |-> FALSE, err |-> ErrMuxNotFound,
          status |-> 0, allow |-> <<>>]
    ELSE IF method = MethodOptions
    THEN [handler |-> 0, ctxOk |-> FALSE, err |-> ErrNone, status |-> StatusNoContent,
          allow |-> String(MatchMethods(ents, match))]
    ELSE LET h0 == Handler(ents, match, method)
             h == IF h0 = 0 /\ method = MethodHead
                  THEN Handler(ents, match, MethodGet) ELSE h0
         IN  IF h = 0
             THEN [handler |-> 0, ctxOk |-> FALSE, err |-> ErrMuxNotFound,
                   status |-> 0, allow |-> <<>>]
             ELSE [handler |-> h, ctxOk |-> TRUE,
                   err |-> IF herr THEN ErrHandler ELSE ErrNone,
                   status |-> IF herr THEN 0 ELSE StatusByHandler, allow |-> <<>>]

\* ServeMux.ServeHTTPErr after the pooled match was reset: the outcome for
\* the match that lookup returned
resolve(ents, match, method, herr) ==
    IF ~match.ptr
    THEN [handler |-> 0, ctxOk |-> FALSE, err |-> ErrMuxNotFound,
          status |-> 0, allow |-> <<>>]
    ELSE LET h0 == Handler(ents, match, method)
             h == IF h0 = 0 /\ method = MethodHead
                  THEN Handler(ents, match, MethodGet) ELSE h0
         IN  IF h = 0 /\ method = MethodOptions
             THEN [handler |-> 0, ctxOk |-> FALSE, err |-> ErrNone,
                   status |-> StatusNoContent,
                   allow |-> String(MatchMethods(ents, match))]
             ELSE IF h = 0
             THEN [handler |-> 0, ctxOk |-> FALSE, err |-> ErrMuxNotFound,
                   status |-> 0, allow |-> <<>>]
             ELSE [handler |-> h, ctxOk |-> TRUE,
                   err |-> IF herr THEN ErrHandler ELSE ErrNone,
                   status |-> IF herr THEN 0 ELSE StatusByHandler, allow |-> <<>>]

\* ServeMux.ServeHTTP: ServeHTTPErr, then the error handler on the request
\* as it came in, whose context carries no MuxMatch.  herr tells whether the
\* handler that is invoked returns an error.
ServeHTTP(method, path) ==
    \E item \in pool \cup {NewMatch} :
        IF ~item.ptr
        THEN /\ pool' = pool \ {item}
             /\ last' = [Quiet EXCEPT !.op = "serve", !.method = method, !.path = path,
                           !.panic = "nil pointer dereference"]
             /\ UNCHANGED <<nodes, entries, arrays, held>>
        ELSE LET match == lookup(nodes, entries, path, Reset(item))
                 invoked == resolve(entries, match, method, FALSE).handler # 0
             IN  \E herr \in IF invoked THEN BOOLEAN ELSE {FALSE} :
                   LET out == resolve(entries, match, method, herr)
                       rsp == IF out.err # ErrNone
                              THEN ErrorHTTP(entries, FALSE, NilMatch, out.err)
                              ELSE [status |-> out.status, allow |-> out.allow]
                   IN  /\ pool' = Put(pool \ {item}, match)
                       /\ last' = [Quiet EXCEPT !.op = "serve", !.method = method,
                                     !.path = path, !.looked = TRUE, !.match = match,
                                     !.handler = out.handler, !.ctxOk = out.ctxOk,
                                     !.err = out.err, !.errHandled = (out.err # ErrNone),
                                     !.status = rsp.status, !.allow = rsp.allow]
                       /\ UNCHANGED <<nodes, entries, arrays, held>>

Next ==
    \/ \E r \in DOMAIN Routes : HandleMethods(r)
    \/ \E path \in RequestPaths : Lookup(path)
    \/ \E method \in RequestMethods, path \in ServePaths : ServeHTTP(method, path)

Spec == Init /\ [][Next]_vars

---------------------------------------------------------------------------
(* Method sets as the slices they are *)

\* the tokens a caller passes, and the argument lists of a call of Methods
Tokens == {MethodGet, MethodPost, MethodPut}

TokenLists == UNION {[1..k -> Tokens] : k \in 0..MaxTokens}

\* a slice s is [arr, len]: the first len elements of the array arr, whose
\* length is the capacity of the slice
Cap(heap, s) == Len(heap[s.arr])

Contents(heap, s) == [k \in 1..s.len |-> heap[s.arr][k]]

\* make([]string, 0, n)
make(heap, n) ==
    [heap |-> Append(heap, [k \in 1..n |-> ""]), slice |-> [arr |-> Len(heap) + 1, len |-> 0]]

\* the built-in append of one element: in place while the capacity allows,
\* into a new array otherwise (the runtime doubles a small capacity)
append(heap, s, x) ==
    IF s.len < Cap(heap, s)
    THEN [heap |-> [heap EXCEPT ![s.arr][s.len + 1] = x],
          slice |-> [arr |-> s.arr, len |-> s.len + 1]]
    ELSE LET newcap == IF Cap(heap, s) = 0 THEN 1 ELSE 2 * Cap(heap, s)
             grown == [k \in 1..newcap |->
                          IF k <= s.len THEN heap[s.arr][k]
                          ELSE IF k = s.len + 1 THEN x ELSE ""]
         IN  [heap |-> Append(heap, grown),
              slice |-> [arr |-> Len(heap) + 1, len |-> s.len + 1]]

\* the loop of Methods
RECURSIVE methodsLoop(_, _, _)
methodsLoop(heap, s, methods) ==
    IF methods = <<>> THEN [heap |-> heap, slice |-> s]
    ELSE IF ~Contains(Contents(heap, s), Head(methods))
    THEN LET a == append(heap, s, Head(methods))
         IN  methodsLoop(a.heap, a.slice, Tail(methods))
    ELSE methodsLoop(heap, s, Tail(methods))

\* the caller keeps the slice it was returned; was is what the slice held
\* when it was returned
Keep(heap, s) == Append(held, [arr |-> s.arr, len |-> s.len, was |-> Contents(heap, s)])

\* s := Methods(tokens...)
CallMethods(tokens) ==
    /\ Len(held) < MaxSets
    /\ LET m == make(arrays, Len(tokens))
           r == methodsLoop(m.heap, m.slice, tokens)
       IN  /\ arrays' = r.heap
           /\ held' = Keep(r.heap, r.slice)
    /\ UNCHANGED <<nodes, entries, pool, last>>

\* s := AnyMethod(): the slice of the package's array
CallAnyMethod ==
    /\ Len(held) < MaxSets
    /\ held' = Keep(arrays, [arr |-> 1, len |-> Len(commonMethods)])
    /\ UNCHANGED <<nodes, entries, pool, last, arrays>>

\* t := held[i].Add(method)
CallAdd(i, method) ==
    /\ Len(held) < MaxSets
    /\ LET m == [arr |-> held[i].arr, len |-> held[i].len]
           r == IF ~Contains(Contents(arrays, m), method)
                THEN append(arrays, m, method)
                ELSE [heap |-> arrays, slice |-> m]
       IN  /\ arrays' = r.heap
           /\ held' = Keep(r.heap, r.slice)
    /\ UNCHANGED <<nodes, entries, pool, last>>

NextMethodSet ==
    \/ \E tokens \in TokenLists : CallMethods(tokens)
    \/ CallAnyMethod
    \/ \E i \in 1..Len(held), method \in Tokens : CallAdd(i, method)

SpecMethodSet == Init /\ [][NextMethodSet]_vars

TypeOK ==
    /\ root \in nodes
    /\ DOMAIN entries \subseteq nodes
    /\ Cardinality(pool) <= MaxPool

---------------------------------------------------------------------------
(* Vocabulary of the properties *)

N_users == <<<<"users">>>>

N_users_new == <<<<"users">>, <<"new">>>>

N_users_wild == <<<<"users">>, WildKey>>

N_wild == <<WildKey>>

\* the registration Routes[r] bound its handler for at least one method
Bound(r) ==
    \E n \in DOMAIN entries :
        \E m \in DOMAIN entries[n].handlers : entries[n].handlers[m] = r

\* the node at which the walk of a pattern ends
EntryNode(pattern) == handleWalk(cleanPath(pattern), root, <<>>, {root}).current

IsLiteralPattern(p) == \A i \in 1..Len(p) : p[i] \notin {":", "*"}

\* the last operation ran lookup on a path and returned the entry at node n
Matched(n) == last.looked /\ last.match.ptr /\ last.match.hasEntry /\ last.match.muxEntry = n

NoMatch == last.looked /\ ~last.match.ptr

---------------------------------------------------------------------------
(* Properties *)

\* C1: with /users/new and /users/:id (or /users/*any) both registered, in
\* either order, a lookup of /users/new returns the /users/new entry and a
\* lookup of /users/1 returns the entry of the wildcard child with the single
\* captured value "1".
C1_LiteralChildBeforeWildcard ==
    (last.looked /\ Bound(2) /\ (Bound(3) \/ Bound(4))) =>
        /\ last.path = Q_users_new =>
              /\ Matched(N_users_new)
              /\ Handler(entries, last.match, MethodGet) = 2
              /\ Pattern(entries, last.match) = P_users_new
              /\ last.match.values = <<>>
        /\ last.path = Q_users_1 =>
              /\ Matched(N_users_wild)
              /\ Handler(entries, last.match, MethodGet) \in {3, 4}
              /\ last.match.values = << <<"1">> >>

C1_Witness ==
    /\ last.op = "lookup" /\ last.path = Q_users_new
    /\ Bound(2) /\ Bound(3)
    /\ Matched(N_users_new)

\* C2: a lookup whose path is identical to a registered pattern made of
\* literal segments only returns the entry at that pattern's node, which holds
\* the handler registered with the pattern, with no captured value, whatever
\* else is registered.
C2_LiteralPatternFindsItself ==
    \A r \in DOMAIN Routes :
        (last.looked /\ Bound(r) /\ IsLiteralPattern(Routes[r].pattern)
                     /\ last.path = Routes[r].pattern) =>
            /\ Matched(EntryNode(Routes[r].pattern))
            /\ \E m \in DOMAIN entries[last.match.muxEntry].handlers :
                   Handler(entries, last.match, m) = r
            /\ Pattern(entries, last.match) = Routes[r].pattern
            /\ last.match.values = <<>>

C2_Witness ==
    /\ last.op = "lookup" /\ last.path = Q_users
    /\ Bound(1) /\ Bound(4) /\ Bound(2)
    /\ Matched(N_users)

\* C3: a trailing slash is insignificant: a lookup of q gives the same result
\* as a lookup of q followed by "/", and a pattern registered with a trailing
\* "/" is found by the path without it.
C3_TrailingSlashInsignificant ==
    /\ (last.looked /\ last.path # <<>> /\ last.path[Len(last.path)] # "/") =>
          lookup(nodes, entries, Append(last.path, "/"), NewMatch) = last.match
    /\ (last.looked /\ Bound(6) /\ last.path = Q_users) =>
          Matched(EntryNode(P_users_slash))

\* C4: with /users/*any as the only pattern, a path with one or more segments
\* after /users matches it, and the one captured value is those segments
\* joined with "/".
C4_GreedyWildcardCapturesRest ==
    (last.looked /\ DOMAIN entries = {N_users_wild}
                 /\ entries[N_users_wild].pattern = P_users_any) =>
        /\ last.path = Q_users_1 =>
              Matched(N_users_wild) /\ last.match.values = << <<"1">> >>
        /\ last.path = Q_users_1_new =>
              Matched(N_users_wild) /\ last.match.values = << <<"1", "/", "new">> >>

\* C5: with /users/*any as the only pattern, a path that ends at the
\* wildcard's parent, /users or /users/, has no match.
C5_WildcardNeedsOneSegment ==
    (last.looked /\ DOMAIN entries = {N_users_wild}
                 /\ entries[N_users_wild].pattern = P_users_any
                 /\ last.path \in {Q_users, Q_users_slash}) => NoMatch

\* C6: with /users/new, /users/:id and /* registered, a path with at least one
\* segment that neither /users/new nor /users/:id matches resolves to /*.
C6_CatchAllTakesTheRest ==
    (last.looked /\ Bound(2) /\ Bound(3) /\ Bound(5)
                 /\ last.path \in {Q_users, Q_users_1_new, Q_1_new}) =>
        Matched(N_wild) /\ Handler(entries, last.match, MethodGet) = 5

\* the last operation was a dispatch that got past the reset of its pooled
\* match and so ran lookup
Dispatched == last.op = "serve" /\ last.looked

\* the handler table of the entry the last lookup returned
MatchedHandlers == entries[last.match.muxEntry].handlers

\* a call of HandleMethods or Handle registered method m at node n: the
\* handler bound for m is the handler of a registration that names m
Registered(ents, n, m) ==
    /\ n \in DOMAIN ents
    /\ m \in DOMAIN ents[n].handlers
    /\ ents[n].handlers[m] \in DOMAIN Routes
    /\ Contains(Routes[ents[n].handlers[m]].methods, m)

\* a step that registers the single method m on a pattern for which the
\* method other, and not m, has been registered
RegistersBeside(m, other) ==
    /\ last'.op = "handle" /\ last'.route \in DOMAIN Routes
    /\ Routes[last'.route].methods = <<m>>
    /\ Routes[last'.route].pattern # <<>> /\ Routes[last'.route].handler # 0
    /\ Registered(entries, EntryNode(Routes[last'.route].pattern), other)
    /\ ~Registered(entries, EntryNode(Routes[last'.route].pattern), m)

RegisteredWithoutPanic(m) ==
    /\ last'.panic = ""
    /\ entries'[EntryNode(Routes[last'.route].pattern)].handlers[m] = last'.route

\* C7: a HEAD request on a matched pattern goes to the handler registered for
\* HEAD when there is one and to the handler of GET otherwise, and registering
\* HEAD on a pattern that has GET, or GET on one that has HEAD, does not panic
\* and binds the handler.
C7_HeadFallsBackToGet ==
    /\ [](Dispatched /\ last.method = MethodHead /\ last.match.hasEntry =>
            /\ Registered(entries, last.match.muxEntry, MethodHead) =>
                   last.handler = MatchedHandlers[MethodHead]
            /\ (~Registered(entries, last.match.muxEntry, MethodHead)
                  /\ Registered(entries, last.match.muxEntry, MethodGet)) =>
                   last.handler = MatchedHandlers[MethodGet])
    /\ [][/\ RegistersBeside(MethodHead, MethodGet) => RegisteredWithoutPanic(MethodHead)
          /\ RegistersBeside(MethodGet, MethodHead) => RegisteredWithoutPanic(MethodGet)]_vars

C7_Witness ==
    /\ Dispatched /\ last.method = MethodHead /\ last.path = Q_users
    /\ Matched(N_users)
    /\ MethodGet \in DOMAIN MatchedHandlers /\ MatchedHandlers[MethodGet] = 1
    /\ MethodHead \in DOMAIN MatchedHandlers /\ last.handler = 8

\* C8: a request whose path matches an entry but whose method resolves to no
\* handler, and is not OPTIONS, is answered 405 with the entry's method set
\* in Allow; a request whose path matches nothing is answered 404.
C8_MethodNotAllowed ==
    /\ (Dispatched /\ last.match.hasEntry /\ last.handler = 0
                   /\ last.method # MethodOptions) =>
          /\ last.status = StatusMethodNotAllowed
          /\ last.allow = String(entries[last.match.muxEntry].methods)
    /\ (Dispatched /\ ~last.match.ptr) => last.status = StatusNotFound

\* C9: an OPTIONS request whose lookup returned an entry without a handler for
\* OPTIONS is answered 204 with the entry's method set in Allow, and neither a
\* handler nor the error handler runs; with a handler for OPTIONS that handler
\* runs; when lookup returned no entry the outcome is not found.
C9_OptionsAnswer ==
    (Dispatched /\ last.method = MethodOptions) =>
        /\ (last.match.hasEntry /\ MethodOptions \notin DOMAIN MatchedHandlers) =>
              /\ last.status = StatusNoContent
              /\ last.allow = String(entries[last.match.muxEntry].methods)
              /\ last.handler = 0 /\ last.err = ErrNone /\ ~last.errHandled
        /\ (last.match.hasEntry /\ MethodOptions \in DOMAIN MatchedHandlers) =>
              /\ last.handler = MatchedHandlers[MethodOptions]
              /\ last.ctxOk
              /\ last.status # StatusNoContent
        /\ ~last.match.ptr =>
              /\ last.err = ErrMuxNotFound /\ last.errHandled
              /\ last.status = StatusNotFound /\ last.handler = 0

C9_Witness ==
    /\ Dispatched /\ last.method = MethodOptions /\ last.path = Q_users
    /\ Matched(N_users) /\ MethodOptions \notin DOMAIN MatchedHandlers
    /\ last.status = StatusNoContent

\* the last operation answered an OPTIONS request itself, for an entry on
\* which a handler was registered for GET and for nothing else
AnsweredOptionsForGetOnly ==
    /\ Dispatched /\ last.method = MethodOptions /\ last.match.hasEntry
    /\ DOMAIN MatchedHandlers = {MethodGet}
    /\ last.status = StatusNoContent

---------------------------------------------------------------------------
(* Patterns and paths, as the documentation describes them *)

\* s cut at every "/"
RECURSIVE Split(_)
Split(s) ==
    IF \A k \in 1..Len(s) : s[k] # "/" THEN <<s>>
    ELSE LET k == CHOOSE i \in 1..Len(s) : s[i] = "/" /\ \A j \in 1..(i - 1) : s[j] # "/"
         IN  <<SubSeq(s, 1, k - 1)>> \o Split(SubSeq(s, k + 1, Len(s)))

\* the segments of a pattern or path: what follows its leading slash, which
\* is supplied when missing, cut at every "/"
Segments(p) == Split(IF p # <<>> /\ p[1] = "/" THEN Tail(p) ELSE p)

IsPlaceholder(seg) == seg # <<>> /\ seg[1] \in {":", "*"}

IsStar(seg) == seg # <<>> /\ seg[1] = "*"

\* a pattern with every placeholder replaced by the wildcard key: two patterns
\* of the same shape differ in placeholder names or kinds or in the leading
\* slash only
Shape(p) ==
    [i \in 1..Len(Segments(p)) |->
        IF IsPlaceholder(Segments(p)[i]) THEN WildKey ELSE Segments(p)[i]]

\* the names of the placeholders of a pattern, in order
RECURSIVE NamesOf(_)
NamesOf(segs) ==
    IF segs = <<>> THEN <<>>
    ELSE (IF IsPlaceholder(Head(segs)) THEN <<Tail(Head(segs))>> ELSE <<>>)
         \o NamesOf(Tail(segs))

ValidRoute(r) ==
    /\ Routes[r].methods # <<>> /\ Routes[r].pattern # <<>> /\ Routes[r].handler # 0

\* method m has a handler that was registered with a pattern of the shape of p
HasHandlerFor(m, p) ==
    \E n \in DOMAIN entries :
        /\ m \in DOMAIN entries[n].handlers
        /\ entries[n].handlers[m] \in DOMAIN Routes
        /\ Shape(Routes[entries[n].handlers[m]].pattern) = Shape(p)

\* C11: registering a method on a pattern for which that method already has a
\* handler panics, also when the earlier pattern differs in placeholder names
\* or kinds or in the leading slash, and every handler bound before the call
\* is still bound after it.
C11_DuplicateRegistrationPanics ==
    [][\A r \in DOMAIN Routes :
          (/\ last'.op = "handle" /\ last'.route = r /\ ValidRoute(r)
           /\ \E i \in 1..Len(Routes[r].methods) :
                  HasHandlerFor(Routes[r].methods[i], Routes[r].pattern))
          => /\ last'.panic = "web: multiple registrations"
             /\ \A n \in DOMAIN entries : \A m \in DOMAIN entries[n].handlers :
                    /\ n \in DOMAIN entries'
                    /\ m \in DOMAIN entries'[n].handlers
                    /\ entries'[n].handlers[m] = entries[n].handlers[m]]_vars

C11_Witness ==
    /\ last.op = "handle" /\ last.route = 4
    /\ last.panic = "web: multiple registrations"
    /\ N_users_wild \in DOMAIN entries
    /\ MethodGet \in DOMAIN entries[N_users_wild].handlers
    /\ entries[N_users_wild].handlers[MethodGet] = 3

\* C12: a registration with an empty method set, an empty pattern or a nil
\* handler panics and leaves the tree as it was: no node, no entry and no
\* binding is added, and every lookup gives what it gave before.
C12_InvalidRegistrationTouchesNothing ==
    [][\A r \in DOMAIN Routes :
          (last'.op = "handle" /\ last'.route = r /\ ~ValidRoute(r))
          => /\ last'.panic = (IF Routes[r].methods = <<>> THEN "webmux: empty method set"
                               ELSE IF Routes[r].pattern = <<>> THEN "webmux: invalid pattern"
                               ELSE "webmux: nil handler")
             /\ nodes' = nodes
             /\ entries' = entries
             /\ \A q \in RequestPaths :
                    lookup(nodes', entries', q, NewMatch) = lookup(nodes, entries, q, NewMatch)]_vars

C12_Witness ==
    /\ last.op = "handle" /\ last.route = 13
    /\ last.panic = "webmux: nil handler"
    /\ N_users_new \in DOMAIN entries
    /\ N_users \notin DOMAIN entries

\* the segments joined back with "/"
RECURSIVE JoinSlash(_)
JoinSlash(segs) ==
    IF segs = <<>> THEN <<>>
    ELSE IF Len(segs) = 1 THEN segs[1]
    ELSE segs[1] \o <<"/">> \o JoinSlash(Tail(segs))

\* the text of path at the position of segment i of pattern: the rest of the
\* path for a final "*" segment, the segment at that position otherwise
TextAt(pattern, path, i) ==
    LET ps == Segments(pattern)
        qs == Segments(cleanPath(path))
    IN  IF i > Len(qs) THEN <<>>
        ELSE IF IsStar(ps[i]) /\ i = Len(ps) THEN JoinSlash(SubSeq(qs, i, Len(qs)))
        ELSE qs[i]

\* C13: when a lookup matches the entry of a pattern with several placeholders,
\* Param(name) returns, for each placeholder name, the text of the path at
\* that placeholder's position, and does not fail.
C13_ParamReadsThePathAtItsPlaceholder ==
    (last.looked /\ last.match.ptr /\ last.match.hasEntry) =>
        LET pattern == Pattern(entries, last.match)
            ps == Segments(pattern)
        IN  Len(NamesOf(ps)) >= 2 =>
              \A i \in 1..Len(ps) :
                  IsPlaceholder(ps[i]) =>
                      Param(entries, last.match, Tail(ps[i]))
                          = [panic |-> FALSE, value |-> TextAt(pattern, last.path, i)]

\* C14: in every pattern stored with an entry, a "*" segment is the final one.
C14_StarSegmentIsFinal ==
    \A n \in DOMAIN entries :
        LET ps == Segments(entries[n].pattern)
        IN  \A i \in 1..Len(ps) : IsStar(ps[i]) => i = Len(ps)

\* C16: in every match that lookup returns, there are as many captured
\* values as the matched entry has parameter names.
C16_OneValuePerParameter ==
    (last.looked /\ last.match.ptr /\ last.match.hasEntry) =>
        Len(last.match.values) = Len(Params(entries, last.match))

\* C17: when a lookup resolves, for some method, to the handler of a
\* registration, the match carries that registration's pattern and the names
\* of its placeholders, which are the names Param knows.
C17_MatchCarriesTheRegisteredPattern ==
    (last.looked /\ last.match.ptr /\ last.match.hasEntry) =>
        \A m \in RequestMethods :
            LET r == Handler(entries, last.match, m)
            IN  r \in DOMAIN Routes =>
                  /\ Pattern(entries, last.match) = Routes[r].pattern
                  /\ Params(entries, last.match) = NamesOf(Segments(Routes[r].pattern))

\* the tree and the entries after HandleMethods with the arguments of
\* Routes[r], on the tree and entries given
handle(tree, ents, r) ==
    IF ~ValidRoute(r) THEN [nodes |-> tree, entries |-> ents]
    ELSE LET w == handleWalk(cleanPath(Routes[r].pattern), root, <<>>, tree)
             entry == IF w.current \in DOMAIN ents
                      THEN ents[w.current]
                      ELSE newEntry(Routes[r].pattern, w.params)
         IN  [nodes |-> w.tree,
              entries |-> (w.current :> setHandlers(entry, Routes[r].methods,
                                                    Routes[r].handler).e) @@ ents]

\* a new mux after the registrations order[1], order[2], ... in that order
RECURSIVE replay(_, _)
replay(order, k) ==
    IF k = 0 THEN [nodes |-> {root}, entries |-> [n \in {} |-> newEntry(<<>>, <<>>)]]
    ELSE LET before == replay(order, k - 1)
         IN  handle(before.nodes, before.entries, order[k])

Applied == {r \in DOMAIN Routes : Bound(r)}

\* every registration that left a binding bound all its methods
AllSucceeded ==
    \A r \in Applied :
        /\ ValidRoute(r)
        /\ \A i \in 1..Len(Routes[r].methods) :
               LET n == EntryNode(Routes[r].pattern)
               IN  /\ n \in DOMAIN entries
                   /\ Routes[r].methods[i] \in DOMAIN entries[n].handlers
                   /\ entries[n].handlers[Routes[r].methods[i]] = r

Orders(S) ==
    {f \in [1..Cardinality(S) -> S] : \A i, j \in 1..Cardinality(S) : i # j => f[i] # f[j]}

\* what a request of method m for path q is given by the mux (tree, ents)
Outcome(tree, ents, m, q) ==
    LET match == lookup(tree, ents, q, NewMatch)
    IN  [matched |-> match.ptr,
         pattern |-> Pattern(ents, match),
         params |-> Params(ents, match),
         values |-> match.values,
         handler |-> resolve(ents, match, m, FALSE).handler,
         methods |-> {MatchMethods(ents, match)[i] :
                         i \in 1..Len(MatchMethods(ents, match))}]

\* C15: when every registration made succeeded, the same registrations made
\* in any other order give a mux with the same outcome for every method and
\* path: pattern, parameter names, captured values, handler and methods.
C15_OrderOfRegistrationIsImmaterial ==
    AllSucceeded =>
        \A order \in Orders(Applied) :
            LET other == replay(order, Cardinality(Applied))
            IN  \A m \in RequestMethods, q \in RequestPaths :
                    Outcome(other.nodes, other.entries, m, q) = Outcome(nodes, entries, m, q)

\* the node reached after k segments of segs, each step taking the child
\* keyed by the segment when there is one and the wildcard child otherwise;
\* empty when some step has neither
Walked(segs, k) ==
    {n \in nodes :
        /\ Len(n) = k
        /\ \A j \in 1..k :
               n[j] = IF Append(SubSeq(n, 1, j - 1), segs[j]) \in nodes
                      THEN segs[j] ELSE WildKey}

\* the nodes with an entry among those the walk of segs visits
VisitedEntries(segs) == DOMAIN entries \cap UNION {Walked(segs, k) : k \in 1..Len(segs)}

C19_PooledMatchIsUsable ==
    last.op = "serve" => (last.panic = "" /\ last.looked)

\* C20: a method set a caller was returned keeps the contents it had when it
\* was returned, whatever Methods and Add calls are made afterwards.
C20_MethodSetsKeepTheirContents ==
    \A i \in 1..Len(held) : Contents(arrays, held[i]) = held[i].was

\* the last step was a registration that panicked on a duplicate
DuplicatePanic(r) ==
    last'.op = "handle" /\ last'.route = r /\ last'.panic = "web: multiple registrations"

\* C21 as stated: a registration that panics because a method of its set is
\* already bound leaves the mux as it was: no handler of the call is bound
\* and no node or entry is added.
C21_DuplicatePanicLeavesTheMuxAsItWas ==
    [][\A r \in DOMAIN Routes :
          DuplicatePanic(r) => (nodes' = nodes /\ entries' = entries)]_vars

\* the index in methods of the first method that is bound in handlers or
\* stands earlier in methods
FirstDuplicate(methods, handlers) ==
    CHOOSE k \in 1..Len(methods) :
        /\ methods[k] \in DOMAIN handlers \/ \E j \in 1..(k - 1) : methods[j] = methods[k]
        /\ \A i \in 1..(k - 1) :
               /\ methods[i] \notin DOMAIN handlers
               /\ \A j \in 1..(i - 1) : methods[j] # methods[i]

SetOf(m) == {m[i] : i \in 1..Len(m)}

\* C21 as amended: a registration that panics because a method of its set was
\* bound on the pattern before the call adds no node and no entry and changes
\* no earlier binding, no pattern and no parameter names; the methods that
\* stand before the duplicate in the set are bound to the handler of the call
\* and are added to the methods of the entry (with HEAD when GET is among
\* them); the duplicate and the methods after it are not bound.
C21_DuplicatePanicKeepsTheEarlierMethods ==
    [][\A r \in DOMAIN Routes :
          (DuplicatePanic(r) /\ EntryNode(Routes[r].pattern) \in DOMAIN entries
              /\ \E i \in 1..Len(Routes[r].methods) :
                     Routes[r].methods[i] \in DOMAIN entries[EntryNode(Routes[r].pattern)].handlers)
          => LET n == EntryNode(Routes[r].pattern)
                 methods == Routes[r].methods
                 k == FirstDuplicate(methods, entries[n].handlers)
                 before == {methods[i] : i \in 1..(k - 1)}
             IN  /\ nodes' = nodes
                 /\ DOMAIN entries' = DOMAIN entries
                 /\ \A x \in DOMAIN entries : x # n => entries'[x] = entries[x]
                 /\ entries'[n].pattern = entries[n].pattern
                 /\ entries'[n].params = entries[n].params
                 /\ DOMAIN entries'[n].handlers = DOMAIN entries[n].handlers \cup before
                 /\ \A m \in DOMAIN entries[n].handlers :
                        entries'[n].handlers[m] = entries[n].handlers[m]
                 /\ \A m \in before : entries'[n].handlers[m] = Routes[r].handler
                 /\ SetOf(entries'[n].methods)
                        = SetOf(entries[n].methods) \cup before
                            \cup (IF MethodGet \in before THEN {MethodHead} ELSE {})]_vars

\* {POST, GET} on "/users" where GET is bound: the call panics and POST is
\* bound to its handler
C21_Witness ==
    /\ last.op = "handle" /\ last.route = 10
    /\ last.panic = "web: multiple registrations"
    /\ N_users \in DOMAIN entries
    /\ DOMAIN entries[N_users].handlers = {MethodGet, MethodPost}
    /\ entries[N_users].handlers[MethodGet] = 1
    /\ entries[N_users].handlers[MethodPost] = 10

====
